---------------------------- MODULE Spec2Model ----------------------------
(***************************************************************************)
(* Model of the travel-guide front end: the App workflow (App.tsx) and the *)
(* outline tree editor (OutlineEditor, LocationForm, types).               *)
(*                                                                         *)
(* A forest is a sequence of nodes; a node is a record                     *)
(*   [id, title, level, children]   with children again a forest.          *)
(* Text that the source writes in Chinese is written here in ASCII:        *)
(*   DefaultTitle    stands for the child/sibling default title,           *)
(*   TopLevelTitle   for the default title of an appended top-level node,  *)
(*   OutlineFailedMsg / ContentFailedMsg for the two alert texts.          *)
(* A location string is a sequence of one-character strings, so that       *)
(* String.prototype.trim is computed and not assumed.                      *)
(***************************************************************************)
EXTENDS Integers, Sequences, FiniteSets, TLC

VARIABLES
    step,         \* App.tsx:8   'input' | 'outline' | 'generating' | 'done'
    location,     \* App.tsx:9
    outline,      \* App.tsx:10  the held forest
    isLoading,    \* App.tsx:11
    downloadUrl,  \* App.tsx:12  Null or an object URL
    inflight,     \* the fetch requests issued and not yet answered
    alertMsg,     \* the text of the alert() raised by the last handler, or NoAlert
    edits,        \* number of editor operations applied to the installed forest
    installedFrom,\* history: the location of the outline request whose response
                  \* installed the held forest
    prev,         \* history: the forest the last handler started from
    lastOp        \* history: the last handler that ran, with its arguments

vars == <<step, location, outline, isLoading, downloadUrl, inflight, alertMsg,
          edits, installedFrom, prev, lastOp>>

---------------------------------------------------------------------------
(* Bounds of the model *)

\* editor operations explored per installed forest
MaxEdits == 2

\* size of the largest well-formed forest the editor is started on
MaxNodes == 3

---------------------------------------------------------------------------
(* Values *)

\* null, written as a sequence like the object URLs it is compared with
Null == <<"null">>
NoAlert == "none"
Undefined == "undefined"

DefaultTitle == "NewTitle"
TopLevelTitle == "NewTopLevelTitle"
ServerTitle == "S"
OutlineFailedMsg == "GenerateOutlineFailed"
ContentFailedMsg == "GenerateContentFailed"

\* the strings an id can be: what Math.random().toString(36).substr(2, 9) may
\* yield and what the outline service may send
IdSeq == <<"a", "b", "c">>
IdSet == {IdSeq[i] : i \in 1..Len(IdSeq)}

\* the ids minted while the editor alone is explored: "a" is the first id of
\* every served forest, "c" is new to a forest of fewer than three nodes
MintedIds == {"a", "c"}

\* titles typed into a node's input field
TitleInputs == {"T"}

\* the ids clicked and minted while the whole workflow is explored
WorkflowIds == {"a", "b"}

\* contents of the form's fields (location, days, budget): an empty and a
\* blank location, a name, a name after a blank
FormInputs ==
    { [location |-> <<>>, days |-> "", budget |-> ""],
      [location |-> <<" ">>, days |-> "3", budget |-> ""],
      [location |-> <<"P">>, days |-> "", budget |-> "low"],
      [location |-> <<" ", "C">>, days |-> "3", budget |-> ""] }

\* the artifacts the content service may answer with
Blobs == {"zip1", "zip2"}

Node(id, title, level, children) ==
    [id |-> id, title |-> title, level |-> level, children |-> children]

\* a sequence without its last element
Front(s) == SubSeq(s, 1, Len(s) - 1)

---------------------------------------------------------------------------
(* The forests the outline service may answer with.  OutlineResponse types *)
(* the field as OutlineNode[] and nothing validates it, so the answers     *)
(* include forests with repeated ids and with levels that are not depths.  *)
(* ServerForests are the answers explored with the whole workflow,         *)
(* EditorForests those the editor alone is explored on.                    *)

IdAt(k) == IdSeq[((k - 1) % Len(IdSeq)) + 1]

\* all forests of exactly n nodes whose ids are IdAt(k), IdAt(k+1), ... in
\* preorder and whose levels are the depths, the top level being lvl
RECURSIVE ForestsOf(_, _, _)
ForestsOf(n, k, lvl) ==
    IF n = 0 THEN {<<>>}
    ELSE UNION {
           { <<Node(IdAt(k), ServerTitle, lvl, ch)>> \o rest :
               ch \in ForestsOf(m, k + 1, lvl + 1),
               rest \in ForestsOf(n - 1 - m, k + 1 + m, lvl) }
           : m \in 0..(n - 1) }

WellFormedForests == UNION { ForestsOf(n, 1, 1) : n \in 0..MaxNodes }

MalformedForests ==
    { <<Node("a", ServerTitle, 1, <<>>), Node("a", ServerTitle, 1, <<>>)>>,
      <<Node("a", ServerTitle, 1, <<Node("a", ServerTitle, 2, <<>>)>>)>>,
      <<Node("a", ServerTitle, 1, <<Node("b", ServerTitle, 2, <<>>)>>),
        Node("b", ServerTitle, 1, <<>>)>>,
      <<Node("a", ServerTitle, 2, <<>>)>>,
      <<Node("a", ServerTitle, 1, <<Node("b", ServerTitle, 1, <<>>)>>)>> }

EditorForests == WellFormedForests \cup MalformedForests

ServerForests ==
    { <<>>,
      <<Node("a", ServerTitle, 1, <<Node("b", ServerTitle, 2, <<>>)>>)>>,
      <<Node("a", ServerTitle, 2, <<>>), Node("a", ServerTitle, 1, <<>>)>> }

---------------------------------------------------------------------------
(* OutlineEditor: the recursive rebuilds *)

\* variant: the spread written the other way round, { ...updates, ...node }
Spread_reversed(node, updates) ==
    [f \in DOMAIN node \cup DOMAIN updates |->
        IF f \in DOMAIN node THEN node[f] ELSE updates[f]]

\* { ...node, ...updates }
Spread(node, updates) ==
    [f \in DOMAIN node |-> IF f \in DOMAIN updates THEN updates[f] ELSE node[f]]

\* handleUpdateNode's updateRecursive: currentNodes.map(...)
RECURSIVE updateRecursive(_, _, _)
updateRecursive(currentNodes, id, updates) ==
    IF currentNodes = <<>> THEN <<>>
    ELSE LET node == Head(currentNodes)
             mapped == IF node.id = id
                         THEN Spread(node, updates)
                       ELSE IF Len(node.children) > 0
                         THEN [node EXCEPT !.children =
                                  updateRecursive(node.children, id, updates)]
                       ELSE node
         IN  <<mapped>> \o updateRecursive(Tail(currentNodes), id, updates)

\* variant: the child's level a constant instead of derived from the parent
newChild_static(node, newId) == Node(newId, DefaultTitle, 2, <<>>)

\* the node handleAddChild builds under `node`; newId is the minted id
newChild(node, newId) == Node(newId, DefaultTitle, node.level + 1, <<>>)

\* variant: the child put in front, [newChild, ...node.children]
withChild_first(node, child) == [node EXCEPT !.children = <<child>> \o node.children]

\* { ...node, children: [...node.children, newChild] }
withChild(node, child) == [node EXCEPT !.children = Append(node.children, child)]

\* number of times addRecursive mints an id: once per node it matches (it does
\* not descend into a node it matched)
RECURSIVE addCalls(_, _)
addCalls(currentNodes, parentId) ==
    IF currentNodes = <<>> THEN 0
    ELSE LET node == Head(currentNodes)
         IN  (IF node.id = parentId THEN 1 ELSE addCalls(node.children, parentId))
             + addCalls(Tail(currentNodes), parentId)

\* handleAddChild's addRecursive; rnd is the sequence of ids Math.random
\* yields, consumed in the order map visits the nodes
RECURSIVE addRecursive(_, _, _)
addRecursive(currentNodes, parentId, rnd) ==
    IF currentNodes = <<>> THEN <<>>
    ELSE LET node == Head(currentNodes)
             used == IF node.id = parentId THEN 1
                     ELSE addCalls(node.children, parentId)
             mapped == IF node.id = parentId
                         THEN withChild(node, newChild(node, rnd[1]))
                       ELSE IF Len(node.children) > 0
                         THEN [node EXCEPT !.children =
                                  addRecursive(node.children, parentId, rnd)]
                       ELSE node
         IN  <<mapped>> \o addRecursive(Tail(currentNodes), parentId,
                                        SubSeq(rnd, used + 1, Len(rnd)))

\* variant: the filter applied to the list at hand only, children kept as is
deleteRecursive_top(currentNodes, id) ==
    SelectSeq(currentNodes, LAMBDA node : node.id # id)

\* variant: findIndex and splice in place of filter, so that only the first
\* match of a list goes
RECURSIVE deleteRecursive_first(_, _)
deleteRecursive_first(currentNodes, id) ==
    LET hits == { i \in 1..Len(currentNodes) : currentNodes[i].id = id }
        first == IF hits = {} THEN 0
                 ELSE CHOOSE i \in hits : \A j \in hits : i <= j
        kept == SubSeq(currentNodes, 1, first - 1)
                  \o SubSeq(currentNodes, first + 1, Len(currentNodes))
    IN  [i \in 1..Len(kept) |->
            [kept[i] EXCEPT !.children = deleteRecursive_first(kept[i].children, id)]]

\* handleDeleteNode's deleteRecursive: filter, then map over the survivors
RECURSIVE deleteRecursive(_, _)
deleteRecursive(currentNodes, id) ==
    LET kept == SelectSeq(currentNodes, LAMBDA node : node.id # id)
    IN  [i \in 1..Len(kept) |->
            [kept[i] EXCEPT !.children = deleteRecursive(kept[i].children, id)]]

\* currentNodes.findIndex(n => n.id === id), 1-based; 0 stands for -1
findIndex(currentNodes, id) ==
    IF \E i \in 1..Len(currentNodes) : currentNodes[i].id = id
      THEN CHOOSE i \in 1..Len(currentNodes) :
             /\ currentNodes[i].id = id
             /\ \A j \in 1..(i - 1) : currentNodes[j].id # id
      ELSE 0

\* the node handleAddSibling builds next to `anchor`
sibling(anchor, newId) == Node(newId, DefaultTitle, anchor.level, <<>>)

\* variant: newNodes.splice(index, 0, item), the item put before the anchor
splice_before(currentNodes, index, item) ==
    SubSeq(currentNodes, 1, index - 1) \o <<item>>
      \o SubSeq(currentNodes, index, Len(currentNodes))

\* newNodes.splice(index + 1, 0, item) for a 1-based index
splice(currentNodes, index, item) ==
    SubSeq(currentNodes, 1, index) \o <<item>>
      \o SubSeq(currentNodes, index + 1, Len(currentNodes))

\* number of times addSiblingRecursive mints an id: once per list in which it
\* finds the id (it does not descend below such a list)
RECURSIVE siblingCalls(_, _)
RECURSIVE siblingCallsEach(_, _)
siblingCalls(currentNodes, id) ==
    IF findIndex(currentNodes, id) # 0 THEN 1
    ELSE siblingCallsEach(currentNodes, id)
siblingCallsEach(currentNodes, id) ==
    IF currentNodes = <<>> THEN 0
    ELSE siblingCalls(Head(currentNodes).children, id)
         + siblingCallsEach(Tail(currentNodes), id)

\* handleAddSibling's addSiblingRecursive, and its trailing map
RECURSIVE addSiblingRecursive(_, _, _)
RECURSIVE addSiblingEach(_, _, _)
addSiblingRecursive(currentNodes, id, rnd) ==
    LET index == findIndex(currentNodes, id)
    IN  IF index # 0
          THEN splice(currentNodes, index, sibling(currentNodes[index], rnd[1]))
          ELSE addSiblingEach(currentNodes, id, rnd)
addSiblingEach(currentNodes, id, rnd) ==
    IF currentNodes = <<>> THEN <<>>
    ELSE LET node == Head(currentNodes)
             used == siblingCalls(node.children, id)
         IN  <<[node EXCEPT !.children = addSiblingRecursive(node.children, id, rnd)]>>
             \o addSiblingEach(Tail(currentNodes), id, SubSeq(rnd, used + 1, Len(rnd)))

\* the node the "add top-level" button builds
newNode(newId) == Node(newId, TopLevelTitle, 1, <<>>)

\* the forest each handler passes to onChange
handleUpdateNode(nodes, id, updates) == updateRecursive(nodes, id, updates)
handleAddChild(nodes, parentId, rnd) == addRecursive(nodes, parentId, rnd)

\* variant: the top-level list spliced at findIndex without a test for -1,
\* which drops the last node when the id is not there
handleDeleteNode_splice(nodes, id) ==
    IF findIndex(nodes, id) = 0
      THEN deleteRecursive(Front(nodes), id)
      ELSE deleteRecursive(nodes, id)

handleDeleteNode(nodes, id) == deleteRecursive(nodes, id)
handleAddSibling(nodes, id, rnd) == addSiblingRecursive(nodes, id, rnd)

\* variant: the new node put first, [newNode, ...nodes]
appendTopLevel_front(nodes, newId) == <<newNode(newId)>> \o nodes

\* onChange([...nodes, newNode])
appendTopLevel(nodes, newId) == nodes \o <<newNode(newId)>>

\* the ids Math.random may yield over n calls, each among ids
RandomIds(n, ids) == [1..n -> ids]

---------------------------------------------------------------------------
(* LocationForm *)

\* String.prototype.trim on a sequence of characters
RECURSIVE trimStart(_)
trimStart(s) == IF s # <<>> /\ Head(s) = " " THEN trimStart(Tail(s)) ELSE s
RECURSIVE trimEnd(_)
trimEnd(s) ==
    IF s # <<>> /\ s[Len(s)] = " " THEN trimEnd(SubSeq(s, 1, Len(s) - 1)) ELSE s
trim(s) == trimEnd(trimStart(s))

\* days === '' ? undefined : Number(days)
daysArg(days) == IF days = "" THEN Undefined ELSE days
\* budget || undefined
budgetArg(budget) == IF budget = "" THEN Undefined ELSE budget

---------------------------------------------------------------------------
(* App *)

\* window.URL.createObjectURL(blob)
createObjectURL(blob) == <<"blob:", blob>>

\* removal of the answered request from those in flight
Answered(i) == SubSeq(inflight, 1, i - 1) \o SubSeq(inflight, i + 1, Len(inflight))

Init ==
    /\ step = "input"
    /\ location = <<>>
    /\ outline = <<>>
    /\ isLoading = FALSE
    /\ downloadUrl = Null
    /\ inflight = <<>>
    /\ alertMsg = NoAlert
    /\ edits = 0
    /\ installedFrom = <<>>
    /\ prev = <<>>
    /\ lastOp = [op |-> "init"]

\* variant: the submit button without disabled={isLoading}
handleSubmit_enabled(loc, days, budget) ==
    /\ step = "input"
    /\ IF trim(loc) = <<>>
         THEN /\ lastOp' = [op |-> "submitBlank"]
              /\ UNCHANGED <<location, isLoading, inflight>>
         ELSE LET req == [kind |-> "outline", location |-> loc,
                          days |-> daysArg(days), budget |-> budgetArg(budget)]
              IN  /\ isLoading' = TRUE
                  /\ location' = loc
                  /\ inflight' = Append(inflight, req)
                  /\ lastOp' = [op |-> "generateOutline", req |-> req]
    /\ alertMsg' = NoAlert
    /\ prev' = outline
    /\ UNCHANGED <<step, outline, downloadUrl, edits, installedFrom>>

\* LocationForm.handleSubmit, and App.handleGenerateOutline up to its await.
\* The form is rendered in step 'input'; its submit button is disabled while
\* isLoading.
handleSubmit(loc, days, budget) ==
    /\ step = "input"
    /\ ~isLoading
    /\ IF trim(loc) = <<>>
         THEN /\ lastOp' = [op |-> "submitBlank"]
              /\ UNCHANGED <<location, isLoading, inflight>>
         ELSE LET req == [kind |-> "outline", location |-> loc,
                          days |-> daysArg(days), budget |-> budgetArg(budget)]
              IN  /\ isLoading' = TRUE
                  /\ location' = loc
                  /\ inflight' = Append(inflight, req)
                  /\ lastOp' = [op |-> "generateOutline", req |-> req]
    /\ alertMsg' = NoAlert
    /\ prev' = outline
    /\ UNCHANGED <<step, outline, downloadUrl, edits, installedFrom>>

\* App.handleGenerateOutline from its await on: the response is ok and its
\* body parses, data.outline being the forest `data`
outlineResolved(i, data) ==
    /\ i \in 1..Len(inflight)
    /\ inflight[i].kind = "outline"
    /\ outline' = data
    /\ step' = "outline"
    /\ isLoading' = FALSE
    /\ inflight' = Answered(i)
    /\ alertMsg' = NoAlert
    /\ edits' = 0
    /\ installedFrom' = inflight[i].location
    /\ prev' = data
    /\ lastOp' = [op |-> "outlineResolved", req |-> inflight[i], data |-> data]
    /\ UNCHANGED <<location, downloadUrl>>

\* variant: the catch block also clears the held forest
outlineRejected_clears(i, how) ==
    /\ i \in 1..Len(inflight)
    /\ inflight[i].kind = "outline"
    /\ alertMsg' = OutlineFailedMsg
    /\ isLoading' = FALSE
    /\ inflight' = Answered(i)
    /\ outline' = <<>>
    /\ prev' = outline
    /\ lastOp' = [op |-> "outlineRejected", req |-> inflight[i], how |-> how]
    /\ UNCHANGED <<step, location, downloadUrl, edits, installedFrom>>

\* App.handleGenerateOutline from its await on: fetch rejects or the body does
\* not parse ("threw"), or the response is not ok ("notOk")
outlineRejected(i, how) ==
    /\ i \in 1..Len(inflight)
    /\ inflight[i].kind = "outline"
    /\ alertMsg' = OutlineFailedMsg
    /\ isLoading' = FALSE
    /\ inflight' = Answered(i)
    /\ prev' = outline
    /\ lastOp' = [op |-> "outlineRejected", req |-> inflight[i], how |-> how]
    /\ UNCHANGED <<step, location, outline, downloadUrl, edits, installedFrom>>

\* variant: setStep('generating') left out, the editor stays on screen
handleGenerateContent_noStep ==
    /\ step = "outline"
    /\ ~isLoading
    /\ LET req == [kind |-> "content", location |-> location, outline |-> outline]
       IN  /\ inflight' = Append(inflight, req)
           /\ lastOp' = [op |-> "generateContent", req |-> req]
    /\ isLoading' = TRUE
    /\ alertMsg' = NoAlert
    /\ prev' = outline
    /\ UNCHANGED <<step, location, outline, downloadUrl, edits, installedFrom>>

\* variant: the request body built without the location
handleGenerateContent_noLocation ==
    /\ step = "outline"
    /\ ~isLoading
    /\ LET req == [kind |-> "content", location |-> <<>>, outline |-> outline]
       IN  /\ inflight' = Append(inflight, req)
           /\ lastOp' = [op |-> "generateContent", req |-> req]
    /\ isLoading' = TRUE
    /\ step' = "generating"
    /\ alertMsg' = NoAlert
    /\ prev' = outline
    /\ UNCHANGED <<location, outline, downloadUrl, edits, installedFrom>>

\* App.handleGenerateContent up to its await.  Its button is rendered in step
\* 'outline' and disabled while isLoading.
handleGenerateContent ==
    /\ step = "outline"
    /\ ~isLoading
    /\ LET req == [kind |-> "content", location |-> location, outline |-> outline]
       IN  /\ inflight' = Append(inflight, req)
           /\ lastOp' = [op |-> "generateContent", req |-> req]
    /\ isLoading' = TRUE
    /\ step' = "generating"
    /\ alertMsg' = NoAlert
    /\ prev' = outline
    /\ UNCHANGED <<location, outline, downloadUrl, edits, installedFrom>>

\* variant: setDownloadUrl(url) left out
contentResolved_keepsUrl(i, blob) ==
    /\ i \in 1..Len(inflight)
    /\ inflight[i].kind = "content"
    /\ step' = "done"
    /\ isLoading' = FALSE
    /\ inflight' = Answered(i)
    /\ alertMsg' = NoAlert
    /\ prev' = outline
    /\ lastOp' = [op |-> "contentResolved", req |-> inflight[i], blob |-> blob]
    /\ UNCHANGED <<location, outline, downloadUrl, edits, installedFrom>>

\* App.handleGenerateContent from its await on: the response is ok
contentResolved(i, blob) ==
    /\ i \in 1..Len(inflight)
    /\ inflight[i].kind = "content"
    /\ downloadUrl' = createObjectURL(blob)
    /\ step' = "done"
    /\ isLoading' = FALSE
    /\ inflight' = Answered(i)
    /\ alertMsg' = NoAlert
    /\ prev' = outline
    /\ lastOp' = [op |-> "contentResolved", req |-> inflight[i], blob |-> blob]
    /\ UNCHANGED <<location, outline, edits, installedFrom>>

\* variant: the catch block goes back to the first step, setStep('input')
contentRejected_toInput(i, how) ==
    /\ i \in 1..Len(inflight)
    /\ inflight[i].kind = "content"
    /\ alertMsg' = ContentFailedMsg
    /\ step' = "input"
    /\ isLoading' = FALSE
    /\ inflight' = Answered(i)
    /\ prev' = outline
    /\ lastOp' = [op |-> "contentRejected", req |-> inflight[i], how |-> how]
    /\ UNCHANGED <<location, outline, downloadUrl, edits, installedFrom>>

\* App.handleGenerateContent from its await on: fetch or blob() rejects
\* ("threw"), or the response is not ok ("notOk")
contentRejected(i, how) ==
    /\ i \in 1..Len(inflight)
    /\ inflight[i].kind = "content"
    /\ alertMsg' = ContentFailedMsg
    /\ step' = "outline"
    /\ isLoading' = FALSE
    /\ inflight' = Answered(i)
    /\ prev' = outline
    /\ lastOp' = [op |-> "contentRejected", req |-> inflight[i], how |-> how]
    /\ UNCHANGED <<location, outline, downloadUrl, edits, installedFrom>>

\* the "reselect location" button of step 'outline'
reselectLocation ==
    /\ step = "outline"
    /\ step' = "input"
    /\ alertMsg' = NoAlert
    /\ prev' = outline
    /\ lastOp' = [op |-> "reselectLocation"]
    /\ UNCHANGED <<location, outline, isLoading, downloadUrl, inflight, edits, installedFrom>>

\* variant: the button of step 'done' goes to the first step, setStep('input')
returnToEdit_toInput ==
    /\ step = "done"
    /\ step' = "input"
    /\ alertMsg' = NoAlert
    /\ prev' = outline
    /\ lastOp' = [op |-> "returnToEdit"]
    /\ UNCHANGED <<location, outline, isLoading, downloadUrl, inflight, edits, installedFrom>>

\* the "return to editing" button of step 'done'
returnToEdit ==
    /\ step = "done"
    /\ step' = "outline"
    /\ alertMsg' = NoAlert
    /\ prev' = outline
    /\ lastOp' = [op |-> "returnToEdit"]
    /\ UNCHANGED <<location, outline, isLoading, downloadUrl, inflight, edits, installedFrom>>

---------------------------------------------------------------------------
(* OutlineEditor, rendered in step 'outline' with nodes = outline and      *)
(* onChange = setOutline                                                   *)

\* what every editor operation does besides computing the new forest
Edited(op, id, title, rnd, nodes) ==
    /\ outline' = nodes
    /\ edits' = edits + 1
    /\ alertMsg' = NoAlert
    /\ prev' = outline
    /\ lastOp' = [op |-> op, id |-> id, title |-> title, rnd |-> rnd]
    /\ UNCHANGED <<step, location, isLoading, downloadUrl, inflight, installedFrom>>

rename(id, newTitle) ==
    /\ step = "outline"
    /\ edits < MaxEdits
    /\ Edited("rename", id, newTitle, <<>>,
              handleUpdateNode(outline, id, [title |-> newTitle]))

insertChild(parentId, rnd) ==
    /\ step = "outline"
    /\ edits < MaxEdits
    /\ Edited("insertChild", parentId, "", rnd, handleAddChild(outline, parentId, rnd))

insertSibling(id, rnd) ==
    /\ step = "outline"
    /\ edits < MaxEdits
    /\ Edited("insertSibling", id, "", rnd, handleAddSibling(outline, id, rnd))

deleteSubtree(id) ==
    /\ step = "outline"
    /\ edits < MaxEdits
    /\ Edited("deleteSubtree", id, "", <<>>, handleDeleteNode(outline, id))

addTopLevel(newId) ==
    /\ step = "outline"
    /\ edits < MaxEdits
    /\ Edited("appendTopLevel", "", "", <<newId>>, appendTopLevel(outline, newId))

Next ==
    \/ \E form \in FormInputs : handleSubmit(form.location, form.days, form.budget)
    \/ \E i \in 1..Len(inflight), data \in ServerForests : outlineResolved(i, data)
    \/ \E i \in 1..Len(inflight), how \in {"notOk", "threw"} : outlineRejected(i, how)
    \/ handleGenerateContent
    \/ \E i \in 1..Len(inflight), blob \in Blobs : contentResolved(i, blob)
    \/ \E i \in 1..Len(inflight), how \in {"notOk", "threw"} : contentRejected(i, how)
    \/ reselectLocation
    \/ returnToEdit
    \/ \E id \in WorkflowIds, newTitle \in TitleInputs : rename(id, newTitle)
    \/ \E id \in WorkflowIds :
         \E rnd \in RandomIds(addCalls(outline, id), WorkflowIds) : insertChild(id, rnd)
    \/ \E id \in WorkflowIds :
         \E rnd \in RandomIds(siblingCalls(outline, id), WorkflowIds) :
           insertSibling(id, rnd)
    \/ \E id \in WorkflowIds : deleteSubtree(id)
    \/ \E newId \in WorkflowIds : addTopLevel(newId)

Spec == Init /\ [][Next]_vars

\* a pending request is answered, with success or with failure
Answer ==
    \/ \E i \in 1..Len(inflight), data \in ServerForests : outlineResolved(i, data)
    \/ \E i \in 1..Len(inflight), how \in {"notOk", "threw"} : outlineRejected(i, how)
    \/ \E i \in 1..Len(inflight), blob \in Blobs : contentResolved(i, blob)
    \/ \E i \in 1..Len(inflight), how \in {"notOk", "threw"} : contentRejected(i, how)

\* the workflow under the assumption that every issued request is answered
FairSpec == Spec /\ WF_vars(Answer)

---------------------------------------------------------------------------
(* The editor alone: the state after a first outline has been installed,   *)
(* and the five editor operations with every id as argument                *)

EditorInit ==
    /\ step = "outline"
    /\ location = <<"P">>
    /\ outline \in EditorForests
    /\ isLoading = FALSE
    /\ downloadUrl = Null
    /\ inflight = <<>>
    /\ alertMsg = NoAlert
    /\ edits = 0
    /\ installedFrom = <<"P">>
    /\ prev = outline
    /\ lastOp = [op |-> "outlineResolved",
                 req |-> [kind |-> "outline", location |-> <<"P">>,
                          days |-> Undefined, budget |-> Undefined],
                 data |-> outline]

EditorNext ==
    \/ \E id \in IdSet, newTitle \in TitleInputs : rename(id, newTitle)
    \/ \E id \in IdSet :
         \E rnd \in RandomIds(addCalls(outline, id), MintedIds) : insertChild(id, rnd)
    \/ \E id \in IdSet :
         \E rnd \in RandomIds(siblingCalls(outline, id), MintedIds) :
           insertSibling(id, rnd)
    \/ \E id \in IdSet : deleteSubtree(id)
    \/ \E newId \in MintedIds : addTopLevel(newId)

EditorSpec == EditorInit /\ [][EditorNext]_vars

---------------------------------------------------------------------------
(* Vocabulary of the properties: a forest seen as a table from index paths *)
(* to node labels.  A path <<i, j>> is the j-th child of the i-th          *)
(* top-level node; two forests are equal exactly when their tables are.    *)

RECURSIVE Paths(_)
Paths(forest) ==
    UNION { {<<i>>} \cup { <<i>> \o p : p \in Paths(forest[i].children) }
            : i \in 1..Len(forest) }

RECURSIVE NodeAt(_, _)
NodeAt(forest, p) ==
    IF Len(p) = 1 THEN forest[p[1]] ELSE NodeAt(forest[p[1]].children, Tail(p))

Label(node) == [id |-> node.id, title |-> node.title, level |-> node.level]

Ids(forest) == { NodeAt(forest, p).id : p \in Paths(forest) }

\* I1
UniqueIds(forest) ==
    LET paths == Paths(forest)
    IN  \A p \in paths : \A q \in paths \ {p} :
            NodeAt(forest, p).id # NodeAt(forest, q).id

\* I2
LevelsConsistent(forest) ==
    \A p \in Paths(forest) :
        NodeAt(forest, p).level =
            IF Len(p) = 1 THEN 1 ELSE NodeAt(forest, Front(p)).level + 1

\* the path of the node with this id, in a forest of unique ids that holds it
PathOf(forest, id) == CHOOSE p \in Paths(forest) : NodeAt(forest, p).id = id

\* p is q or an ancestor of q
IsPrefix(p, q) == Len(p) <= Len(q) /\ SubSeq(q, 1, Len(p)) = p

\* q is, or lies below, a later sibling of p
AfterInList(p, q) ==
    /\ Len(q) >= Len(p)
    /\ SubSeq(q, 1, Len(p) - 1) = Front(p)
    /\ q[Len(p)] > p[Len(p)]

\* where the node at q sits once an element is inserted right after p
ShiftRight(p, q) == IF AfterInList(p, q) THEN [q EXCEPT ![Len(p)] = @ + 1] ELSE q

\* where the node at q sits once the element at p is removed
ShiftLeft(p, q) == IF AfterInList(p, q) THEN [q EXCEPT ![Len(p)] = @ - 1] ELSE q

EditorOps == {"rename", "insertChild", "insertSibling", "deleteSubtree", "appendTopLevel"}

---------------------------------------------------------------------------
(* C1: level consistency is preserved.  Whenever an editor operation       *)
(* (rename, insertChild, insertSibling, deleteSubtree, appendTopLevel,     *)
(* with any id as argument) is applied to a forest in which every node's   *)
(* level is 1 at the top and parent.level + 1 below, the resulting forest  *)
(* has that property too; hence so has the result of any finite sequence.  *)
C1_LevelConsistency ==
    (lastOp.op \in EditorOps /\ LevelsConsistent(prev)) => LevelsConsistent(outline)

C1_Witness ==
    /\ lastOp.op = "insertChild"
    /\ edits = 2
    /\ LevelsConsistent(prev)
    /\ \E p \in Paths(outline) : Len(p) = 3 /\ p \notin Paths(prev)

(* C2: uniqueness of ids is preserved by insertChild, insertSibling and    *)
(* appendTopLevel: applied to a forest of pairwise distinct ids, each      *)
(* yields a forest of pairwise distinct ids.                               *)
C2_UniquenessPreserved ==
    (lastOp.op \in {"insertChild", "insertSibling", "appendTopLevel"} /\ UniqueIds(prev))
        => UniqueIds(outline)

(* C3: no-op on a missing id.  rename, insertChild, insertSibling and      *)
(* deleteSubtree called with an id that occurs nowhere in the forest yield *)
(* a forest equal to the input: same nodes, labels, order and nesting.     *)
C3_NoOpOnMissingId ==
    (/\ lastOp.op \in {"rename", "insertChild", "insertSibling", "deleteSubtree"}
     /\ lastOp.id \notin Ids(prev))
        => outline = prev

C3_Witness ==
    /\ lastOp.op = "insertSibling"
    /\ lastOp.id \notin Ids(prev)
    /\ \E p \in Paths(prev) : Len(p) = 2
    /\ outline = prev

(* C4: delete cascades.  In a forest of unique ids, deleteSubtree of a     *)
(* present id X leaves no id of X's subtree, and every other node stays,   *)
(* with its label, under the same parent and in the same relative order    *)
(* (its path changes only by the index shift in X's sibling list).         *)
C4_DeleteCascades ==
    (lastOp.op = "deleteSubtree" /\ UniqueIds(prev) /\ lastOp.id \in Ids(prev))
        => LET x == PathOf(prev, lastOp.id)
               gone == { q \in Paths(prev) : IsPrefix(x, q) }
               kept == Paths(prev) \ gone
           IN  /\ Ids(outline) \cap { NodeAt(prev, q).id : q \in gone } = {}
               /\ Paths(outline) = { ShiftLeft(x, q) : q \in kept }
               /\ \A q \in kept :
                    Label(NodeAt(outline, ShiftLeft(x, q))) = Label(NodeAt(prev, q))

C4_Witness ==
    /\ lastOp.op = "deleteSubtree"
    /\ UniqueIds(prev)
    /\ lastOp.id \in Ids(prev)
    /\ Len(PathOf(prev, lastOp.id)) = 2
    /\ NodeAt(prev, PathOf(prev, lastOp.id)).children # <<>>
    /\ Cardinality(Paths(outline)) = Cardinality(Paths(prev)) - 2

(* C5: sibling insertion.  In a forest of unique ids, insertSibling of a   *)
(* present anchor at index i of a sibling list adds exactly one node, at   *)
(* index i+1 of that list, with the anchor's level and no children; every  *)
(* node that was there keeps its label, parent and relative order.         *)
C5_SiblingInsertion ==
    (lastOp.op = "insertSibling" /\ UniqueIds(prev) /\ lastOp.id \in Ids(prev))
        => LET a == PathOf(prev, lastOp.id)
               new == [a EXCEPT ![Len(a)] = @ + 1]
           IN  /\ Paths(outline) = { ShiftRight(a, q) : q \in Paths(prev) } \cup {new}
               /\ Cardinality(Paths(outline)) = Cardinality(Paths(prev)) + 1
               /\ \A q \in Paths(prev) :
                    Label(NodeAt(outline, ShiftRight(a, q))) = Label(NodeAt(prev, q))
               /\ NodeAt(outline, new).level = NodeAt(prev, a).level
               /\ NodeAt(outline, new).children = <<>>

C5_Witness ==
    /\ lastOp.op = "insertSibling"
    /\ UniqueIds(prev)
    /\ lastOp.id \in Ids(prev)
    /\ LET a == PathOf(prev, lastOp.id)
       IN  /\ Len(a) = 2
           /\ a[2] = 1
           /\ <<a[1], 2>> \in Paths(prev)
           /\ <<a[1], 3>> \in Paths(outline)

(* C6: child insertion.  In a forest of unique ids, insertChild of a       *)
(* present parent adds exactly one node: the last child of that parent,    *)
(* with level parent.level + 1 and no children; the parent's earlier       *)
(* children and every other node keep their place and label.               *)
C6_ChildInsertion ==
    (lastOp.op = "insertChild" /\ UniqueIds(prev) /\ lastOp.id \in Ids(prev))
        => LET par == PathOf(prev, lastOp.id)
               new == par \o <<Len(NodeAt(prev, par).children) + 1>>
           IN  /\ Paths(outline) = Paths(prev) \cup {new}
               /\ new \notin Paths(prev)
               /\ \A q \in Paths(prev) :
                    Label(NodeAt(outline, q)) = Label(NodeAt(prev, q))
               /\ NodeAt(outline, new).level = NodeAt(prev, par).level + 1
               /\ NodeAt(outline, new).children = <<>>

C6_Witness ==
    /\ lastOp.op = "insertChild"
    /\ UniqueIds(prev)
    /\ lastOp.id \in Ids(prev)
    /\ LET par == PathOf(prev, lastOp.id)
       IN  /\ Len(par) = 2
           /\ NodeAt(prev, par).children # <<>>
           /\ Len(NodeAt(outline, par).children) = 2

(* C7: rename scoping.  In a forest of unique ids, rename of a present id  *)
(* sets that node's title to the new title and changes nothing else: the   *)
(* node's id, level and children, and every other node's label and place.  *)
C7_RenameScoping ==
    (lastOp.op = "rename" /\ UniqueIds(prev) /\ lastOp.id \in Ids(prev))
        => LET x == PathOf(prev, lastOp.id)
           IN  /\ Paths(outline) = Paths(prev)
               /\ \A q \in Paths(prev) :
                    Label(NodeAt(outline, q)) =
                        IF q = x
                          THEN [Label(NodeAt(prev, q)) EXCEPT !.title = lastOp.title]
                          ELSE Label(NodeAt(prev, q))

C7_Witness ==
    /\ lastOp.op = "rename"
    /\ UniqueIds(prev)
    /\ lastOp.id \in Ids(prev)
    /\ LET x == PathOf(prev, lastOp.id)
       IN  /\ Len(x) = 2
           /\ NodeAt(prev, x).children # <<>>
           /\ NodeAt(prev, x).title # lastOp.title
           /\ NodeAt(outline, x).title = lastOp.title

(* C8: deletion is idempotent.  Once deleteSubtree(id) has been applied    *)
(* (id present or absent), applying it again returns the same forest.      *)
C8_DeleteIdempotent ==
    lastOp.op = "deleteSubtree" => handleDeleteNode(outline, lastOp.id) = outline

C8_Witness ==
    /\ lastOp.op = "deleteSubtree"
    /\ lastOp.id \in Ids(prev)
    /\ outline # prev
    /\ outline # <<>>
    /\ handleDeleteNode(outline, lastOp.id) = outline

(* C9: a failed content generation (a response that is not ok, or a thrown *)
(* error) takes the step from 'generating' back to 'outline' and leaves    *)
(* the held forest equal to the forest held when generation was triggered. *)
C9_ContentFailureKeepsForest ==
    [][lastOp'.op = "contentRejected"
         => /\ step = "generating"
            /\ step' = "outline"
            /\ outline' = lastOp'.req.outline
            /\ outline' = outline]_vars

C9_Witness ==
    /\ lastOp.op = "contentRejected"
    /\ lastOp.how = "notOk"
    /\ step = "outline"
    /\ edits = 2
    /\ outline # <<>>
    /\ outline = lastOp.req.outline

(* C10: an outline request that fails raises the outline-failure alert,    *)
(* leaves the held forest unchanged and the step at 'input'; and the step  *)
(* goes from 'input' to 'outline' only in the handling of an ok response,  *)
(* whose forest is installed whole as the held forest.                     *)
C10_OutlineFailureKeepsState ==
    [][/\ lastOp'.op = "outlineRejected"
            => /\ alertMsg' = OutlineFailedMsg
               /\ outline' = outline
               /\ step = "input"
               /\ step' = "input"
       /\ (step = "input" /\ step' = "outline")
            => /\ lastOp'.op = "outlineResolved"
               /\ outline' = lastOp'.data]_vars

C10_Witness ==
    /\ lastOp.op = "outlineRejected"
    /\ lastOp.how = "notOk"
    /\ alertMsg = OutlineFailedMsg
    /\ step = "input"
    /\ outline # <<>>

(* C11: no tree mutation while a request is pending.  In every state with  *)
(* a request in flight the step is not 'outline' (the editor is not on     *)
(* screen), the next handler is no editor operation, and the held forest   *)
(* changes only when an ok outline response installs a new one; so the     *)
(* forest at response time is the forest at request time.                  *)
C11_NoEditWhilePending ==
    [][inflight # <<>>
         => /\ step # "outline"
            /\ lastOp'.op \notin EditorOps
            /\ (lastOp'.op # "outlineResolved" => outline' = outline)
            /\ (inflight' # <<>> => step' # "outline")]_vars

C11_Witness ==
    /\ inflight # <<>>
    /\ inflight[1].kind = "content"
    /\ step = "generating"
    /\ edits = 1
    /\ outline = inflight[1].outline
    /\ outline # <<>>

(* C12: a content request carries the held forest verbatim, with every     *)
(* edit applied since it was installed, and the location submitted in the  *)
(* outline request whose response installed that forest.                   *)
C12_ContentRequestBody ==
    [][lastOp'.op = "generateContent"
         => /\ lastOp'.req.outline = outline
            /\ lastOp'.req.location = installedFrom
            /\ inflight'[Len(inflight')] = lastOp'.req]_vars

C12_Witness ==
    /\ lastOp.op = "generateContent"
    /\ edits = 2
    /\ lastOp.req.outline = outline
    /\ outline # <<>>
    /\ lastOp.req.location = <<" ", "C">>
    /\ installedFrom = <<" ", "C">>

(* C13: appendTopLevel yields the input top-level list followed by exactly *)
(* one new element, which has level 1 and no children; every node that was *)
(* there keeps its label, children and position.                           *)
C13_AppendTopLevel ==
    lastOp.op = "appendTopLevel"
        => /\ Len(outline) = Len(prev) + 1
           /\ SubSeq(outline, 1, Len(prev)) = prev
           /\ Paths(outline) = Paths(prev) \cup {<<Len(prev) + 1>>}
           /\ outline[Len(outline)].level = 1
           /\ outline[Len(outline)].children = <<>>

C13_Witness ==
    /\ lastOp.op = "appendTopLevel"
    /\ Len(prev) = 2
    /\ \E p \in Paths(prev) : Len(p) = 2
    /\ Len(outline) = 3
    /\ outline[3].id = "c"

(* C14: the forest installed on an ok outline response satisfies I1 (ids   *)
(* pairwise distinct) and I2 (every level is the node's depth).            *)
C14_InstalledForestValid ==
    lastOp.op = "outlineResolved" => UniqueIds(outline) /\ LevelsConsistent(outline)

(* C16: sibling order (I3).  Every editor operation keeps, in every        *)
(* sibling list, the relative order of the nodes that are there before and *)
(* after; rename changes no list's membership; an insertion (insertChild   *)
(* or insertSibling of a present id, appendTopLevel) adds exactly one      *)
(* element to exactly one list; a deletion of a present id removes exactly *)
(* one element from exactly one list.  Stated on paths: the ids at the     *)
(* paths of the result are those of the input, up to the index shift that  *)
(* the one inserted or removed element causes in its own list.             *)
OneInserted(before, after) ==
    \E new \in Paths(after) :
        LET anchor == [new EXCEPT ![Len(new)] = @ - 1]
        IN  /\ Paths(after) = { ShiftRight(anchor, q) : q \in Paths(before) } \cup {new}
            /\ new \notin { ShiftRight(anchor, q) : q \in Paths(before) }
            /\ \A q \in Paths(before) :
                 NodeAt(after, ShiftRight(anchor, q)).id = NodeAt(before, q).id

OneRemoved(before, after, id) ==
    \E x \in Paths(before) :
        /\ NodeAt(before, x).id = id
        /\ LET kept == { q \in Paths(before) : ~IsPrefix(x, q) }
           IN  /\ Paths(after) = { ShiftLeft(x, q) : q \in kept }
               /\ \A q \in kept :
                    NodeAt(after, ShiftLeft(x, q)).id = NodeAt(before, q).id

SameLists(before, after) ==
    /\ Paths(after) = Paths(before)
    /\ \A q \in Paths(before) : NodeAt(after, q).id = NodeAt(before, q).id

C16_SiblingOrder ==
    /\ lastOp.op = "rename" => SameLists(prev, outline)
    /\ lastOp.op = "appendTopLevel" => OneInserted(prev, outline)
    /\ lastOp.op \in {"insertChild", "insertSibling"}
         => IF lastOp.id \in Ids(prev) THEN OneInserted(prev, outline)
                                       ELSE SameLists(prev, outline)
    /\ lastOp.op = "deleteSubtree"
         => IF lastOp.id \in Ids(prev) THEN OneRemoved(prev, outline, lastOp.id)
                                       ELSE SameLists(prev, outline)

(* C17: at most one request is in flight, isLoading is true exactly while  *)
(* one is, and a handler issues a request only in step 'input' or          *)
(* 'outline' with isLoading false.                                         *)
C17_OneRequestAtATime ==
    [][/\ Len(inflight) <= 1 /\ Len(inflight') <= 1
       /\ isLoading <=> (inflight # <<>>)
       /\ isLoading' <=> (inflight' # <<>>)
       /\ Len(inflight') > Len(inflight)
            => /\ step \in {"input", "outline"}
               /\ ~isLoading]_vars

C17_Witness ==
    /\ Len(inflight) = 1
    /\ inflight[1].kind = "outline"
    /\ isLoading
    /\ step = "input"
    /\ outline # <<>>
    /\ downloadUrl # Null

(* C18: in step 'done' downloadUrl is not null and is the object URL of    *)
(* the blob of the content response just handled, the most recent          *)
(* successful one, and the held forest is the forest that request carried. *)
C18_DoneHoldsArtifact ==
    step = "done"
        => /\ lastOp.op = "contentResolved"
           /\ downloadUrl # Null
           /\ downloadUrl = createObjectURL(lastOp.blob)
           /\ outline = lastOp.req.outline

C18_Witness ==
    /\ step = "done"
    /\ lastOp.op = "contentResolved"
    /\ lastOp.blob = "zip2"
    /\ downloadUrl = createObjectURL("zip2")
    /\ edits = 2
    /\ outline # <<>>
    /\ outline = lastOp.req.outline

(* C19: the step changes only along input->outline (ok outline response),  *)
(* outline->input (reselect), outline->generating (content request),       *)
(* generating->done (ok content response), generating->outline (failed     *)
(* content response) and done->outline (return to editing); and, every     *)
(* issued request being answered, step 'generating' leads to step 'done'   *)
(* or 'outline' with isLoading false.                                      *)
StepChange ==
    step' # step
        => \/ step = "input" /\ step' = "outline" /\ lastOp'.op = "outlineResolved"
           \/ step = "outline" /\ step' = "input" /\ lastOp'.op = "reselectLocation"
           \/ step = "outline" /\ step' = "generating" /\ lastOp'.op = "generateContent"
           \/ step = "generating" /\ step' = "done" /\ lastOp'.op = "contentResolved"
           \/ step = "generating" /\ step' = "outline" /\ lastOp'.op = "contentRejected"
           \/ step = "done" /\ step' = "outline" /\ lastOp'.op = "returnToEdit"

C19_StepTransitions ==
    /\ [][StepChange]_vars
    /\ (step = "generating") ~> (step \in {"done", "outline"} /\ ~isLoading)

C19_Witness ==
    /\ step = "outline"
    /\ ~isLoading
    /\ lastOp.op = "contentRejected"
    /\ lastOp.how = "threw"
    /\ downloadUrl # Null

=============================================================================
